---- MODULE Spec2Model ----
(***************************************************************************)
(* Model of the Phish_NotPhish URL classifier service:                     *)
(*   src/feature_extract.py  the lexical feature extractor and the         *)
(*                           assembly of the classifier's input record     *)
(*   src/app.py              the Flask front end (GET /, POST /predict)    *)
(*                                                                         *)
(* A Python str is modelled as a sequence of one-character strings, so     *)
(* that counting, searching, splitting and lower-casing are computed as    *)
(* the code computes them.  The inputs are ASCII; the characters that the  *)
(* model gives a meaning to are listed in Chars.                           *)
(***************************************************************************)
EXTENDS Integers, Sequences, FiniteSets, TLC

VARIABLES
    phase,          \* "library" (module imported only), "boot", "serving", "crashed"
    modelFile,      \* robust_rf.pkl on disk: a classifier, or Missing
    metaFile,       \* robust_meta.json on disk: a JSON document, Missing or Malformed
    model,          \* app.py global `model`
    meta,           \* app.py global `meta`
    MODEL_FEATURES, \* app.py global MODEL_FEATURES
    request,        \* the POST /predict or GET / request last handled
    response,       \* the response to it
    exc,            \* the exception raised inside predict()'s try block, or NoExc
    url,            \* the url argument of the last extractor call
    features,       \* the last outcome of compute_url_superset_features
    X               \* the last outcome of extract_features_for_model

vars == <<phase, modelFile, metaFile, model, meta, MODEL_FEATURES,
          request, response, exc, url, features, X>>

None == [none |-> TRUE]
NoExc == [type |-> "none", msg |-> ""]
Missing == [file |-> "missing"]
Malformed == [file |-> "malformed"]

Raise(type, msg) == [type |-> type, msg |-> msg]

IsRaise(r) == DOMAIN r = {"type", "msg"}

\* The element of a one-element set.  Only({F(x) : x \in {e}}) is F(e) with e
\* evaluated once, as a local variable assigned once in the code
Only(S) == CHOOSE x \in S : TRUE

-----------------------------------------------------------------------------
(* Python str operations on sequences of characters *)

Digits == <<"0", "1", "2", "3", "4", "5", "6", "7", "8", "9">>

UpperLetters == <<"A", "B", "C", "D", "E", "F", "G", "H", "I", "J", "K", "L", "M",
                  "N", "O", "P", "Q", "R", "S", "T", "U", "V", "W", "X", "Y", "Z">>

LowerLetters == <<"a", "b", "c", "d", "e", "f", "g", "h", "i", "j", "k", "l", "m",
                  "n", "o", "p", "q", "r", "s", "t", "u", "v", "w", "x", "y", "z">>

Range(s) == {s[i] : i \in DOMAIN s}

Others == {".", "-", "@", "?", "&", "|", "=", "_", "~", "%", "/", "*", ":",
           "#", ";", "[", "]", " ", "\t"}

Chars == Range(Digits) \cup Range(UpperLetters) \cup Range(LowerLetters) \cup Others

Whitespace == {" ", "\t"}

DigitValue(c) == (CHOOSE i \in DOMAIN Digits : Digits[i] = c) - 1

islower_az(c) == c \in Range(LowerLetters)

lower_char(c) ==
    IF c \in Range(UpperLetters)
    THEN LowerLetters[CHOOSE i \in DOMAIN UpperLetters : UpperLetters[i] = c]
    ELSE c

\* str.lower()
lower(s) == [i \in DOMAIN s |-> lower_char(s[i])]

\* s[i:i+len(p)] == p, with i counted from 1
MatchAt(s, p, i) ==
    /\ i >= 1
    /\ i + Len(p) - 1 <= Len(s)
    /\ \A k \in DOMAIN p : s[i + k - 1] = p[k]

\* p in s
Contains(s, p) == \E i \in 1..Len(s) : MatchAt(s, p, i)

\* s.startswith(p)
startswith(s, p) == MatchAt(s, p, 1)

\* s.endswith(p)
endswith(s, p) == Len(p) <= Len(s) /\ MatchAt(s, p, Len(s) - Len(p) + 1)

\* s.find(p, start) counted from 1: the first index >= start where p occurs, or 0
RECURSIVE find(_, _, _)
find(s, p, start) ==
    IF start + Len(p) - 1 > Len(s) THEN 0
    ELSE IF MatchAt(s, p, start) THEN start
    ELSE find(s, p, start + 1)

\* the last index <= start where p occurs, or 0
RECURSIVE rfind_from(_, _, _)
rfind_from(s, p, start) ==
    IF start < 1 THEN 0
    ELSE IF MatchAt(s, p, start) THEN start
    ELSE rfind_from(s, p, start - 1)

\* s.rfind(p) counted from 1: the last index where p occurs, or 0
rfind(s, p) == rfind_from(s, p, Len(s))

RECURSIVE CountFrom(_, _, _)
CountFrom(s, p, i) ==
    IF i + Len(p) - 1 > Len(s) THEN 0
    ELSE IF MatchAt(s, p, i) THEN 1 + CountFrom(s, p, i + Len(p))
    ELSE CountFrom(s, p, i + 1)

\* s.count(p): the number of non-overlapping occurrences of p, left to right
count(s, p) == CountFrom(s, p, 1)

\* s.split(c)[0] and s.split(c)[-1] for a one-character separator c
split_first(s, c) ==
    LET i == find(s, <<c>>, 1) IN IF i = 0 THEN s ELSE SubSeq(s, 1, i - 1)

split_last(s, c) ==
    LET i == rfind(s, <<c>>) IN IF i = 0 THEN s ELSE SubSeq(s, i + 1, Len(s))

\* s.split(c) for a one-character separator c
RECURSIVE split(_, _)
split(s, c) ==
    LET i == find(s, <<c>>, 1) IN
    IF i = 0 THEN <<s>>
    ELSE <<SubSeq(s, 1, i - 1)>> \o split(SubSeq(s, i + 1, Len(s)), c)

\* s.strip()
no_strip(s) == s

RECURSIVE lstrip(_)
lstrip(s) == IF s # <<>> /\ Head(s) \in Whitespace THEN lstrip(Tail(s)) ELSE s

RECURSIVE rstrip(_)
rstrip(s) ==
    IF s # <<>> /\ s[Len(s)] \in Whitespace THEN rstrip(SubSeq(s, 1, Len(s) - 1)) ELSE s

strip(s) == rstrip(lstrip(s))

\* s.replace(c, "") for a one-character c
remove_char(s, c) == SelectSeq(s, LAMBDA x : x # c)

\* str.isdigit() and all(...)
all_chars(s, S) == \A i \in DOMAIN s : s[i] \in S

str_isdigit(s) == s # <<>> /\ all_chars(s, Range(Digits))

\* int(s) for a string of ASCII digits
RECURSIVE int(_)
int(s) == IF s = <<>> THEN 0 ELSE 10 * int(SubSeq(s, 1, Len(s) - 1)) + DigitValue(s[Len(s)])

\* sum(pred(ch) for ch in s)
RECURSIVE CountIn(_, _)
CountIn(s, S) ==
    IF s = <<>> THEN 0 ELSE (IF Head(s) \in S THEN 1 ELSE 0) + CountIn(Tail(s), S)

-----------------------------------------------------------------------------
(* urllib.parse.urlparse, as called at feature_extract.py line 34: its    *)
(* argument always starts with "http://" or "https://".                   *)

HexDigits == Range(Digits) \cup {"a", "b", "c", "d", "e", "f", "A", "B", "C", "D", "E", "F"}

\* ipaddress.IPv4Address: four decimal octets, no leading zeros, each <= 255
IsIPv4Octet(o) ==
    /\ str_isdigit(o)
    /\ Len(o) <= 3
    /\ (Len(o) > 1 => o[1] # "0")
    /\ int(o) <= 255

IsIPv4(s) ==
    LET octets == split(s, ".") IN
    Len(octets) = 4 /\ \A i \in DOMAIN octets : IsIPv4Octet(octets[i])

\* ipaddress.IPv6Address._parse_hextet
IsHextet(h) == h # <<>> /\ Len(h) <= 4 /\ all_chars(h, HexDigits)

\* ipaddress.IPv6Address._ip_int_from_string, on the list of ':'-separated
\* parts in which an IPv4 tail has already been replaced by two hextets
IsIPv6Parts(parts) ==
    LET n == Len(parts)
        skips == {i \in 2..(n - 1) : parts[i] = <<>>}
    IN  /\ n >= 3
        /\ n <= 9
        /\ Cardinality(skips) <= 1
        /\ IF skips # {}
           THEN LET k == CHOOSE i \in skips : TRUE
                    hi == IF parts[1] = <<>> THEN k - 2 ELSE k - 1
                    lo == IF parts[n] = <<>> THEN n - k - 1 ELSE n - k
                IN  /\ (parts[1] = <<>> => hi = 0)
                    /\ (parts[n] = <<>> => lo = 0)
                    /\ 8 - (hi + lo) >= 1
                    /\ \A i \in 1..hi : IsHextet(parts[i])
                    /\ \A i \in (n - lo + 1)..n : IsHextet(parts[i])
           ELSE /\ n = 8
                /\ \A i \in 1..n : IsHextet(parts[i])

IsIPv6(s) ==
    LET parts == split(s, ":")
        last == parts[Len(parts)]
    IN  IF Contains(last, <<".">>)
        THEN /\ IsIPv4(last)
             /\ IsIPv6Parts(SubSeq(parts, 1, Len(parts) - 1) \o <<<<"0">>, <<"0">>>>)
        ELSE IsIPv6Parts(parts)

\* ipaddress._split_scope_id followed by the address check
IsScopedIPv6(s) ==
    LET i == find(s, <<"%">>, 1) IN
    IF i = 0 THEN IsIPv6(s)
    ELSE /\ i < Len(s)
         /\ ~Contains(SubSeq(s, i + 1, Len(s)), <<"%">>)
         /\ IsIPv6(SubSeq(s, 1, i - 1))

\* re.match(r"\Av[a-fA-F0-9]+\..+\Z", hostname)
IsIPvFuture(s) ==
    \E i \in 3..(Len(s) - 1) :
        /\ s[1] = "v"
        /\ s[i] = "."
        /\ \A j \in 2..(i - 1) : s[j] \in HexDigits

\* urllib.parse._check_bracketed_host: TRUE when it raises ValueError
check_bracketed_host(hostname) ==
    IF startswith(hostname, <<"v">>) THEN ~IsIPvFuture(hostname)
    ELSE ~IsScopedIPv6(hostname)

\* the index (from 1) of the first of '/', '?', '#' in s, or Len(s) + 1
RECURSIVE FirstDelimFrom(_, _, _)
FirstDelimFrom(s, delims, i) ==
    IF i > Len(s) \/ s[i] \in delims THEN i ELSE FirstDelimFrom(s, delims, i + 1)

FirstDelim(s, delims) == FirstDelimFrom(s, delims, 1)

\* netloc.partition('[')[2].partition(']')[0]
bracketed_host(netloc) ==
    LET after == SubSeq(netloc, find(netloc, <<"[">>, 1) + 1, Len(netloc))
    IN  split_first(after, "]")

\* urllib.parse._splitparams
splitparams(u) ==
    LET i == IF Contains(u, <<"/">>) THEN find(u, <<";">>, rfind(u, <<"/">>))
             ELSE find(u, <<";">>, 1)
    IN  IF i = 0 THEN u ELSE SubSeq(u, 1, i - 1)

\* urlparse(u) for u starting with http:// or https://: the netloc, path and
\* query of the result, or the ValueError it raises
urlparse(u) ==
    LET clean == remove_char(u, "\t")
        colon == find(clean, <<":">>, 1)
        rest == SubSeq(clean, colon + 3, Len(clean))
        d == FirstDelim(rest, {"/", "?", "#"})
        netloc == SubSeq(rest, 1, d - 1)
        tail == SubSeq(rest, d, Len(rest))
        hash == find(tail, <<"#">>, 1)
        nofrag == IF hash = 0 THEN tail ELSE SubSeq(tail, 1, hash - 1)
        qm == find(nofrag, <<"?">>, 1)
        pathparams == IF qm = 0 THEN nofrag ELSE SubSeq(nofrag, 1, qm - 1)
        query == IF qm = 0 THEN <<>> ELSE SubSeq(nofrag, qm + 1, Len(nofrag))
        open == Contains(netloc, <<"[">>)
        close == Contains(netloc, <<"]">>)
    IN  IF open # close THEN Raise("ValueError", "Invalid IPv6 URL")
        ELSE IF open /\ close /\ check_bracketed_host(bracketed_host(netloc))
        THEN Raise("ValueError", "not an IPv6 address")
        ELSE [netloc |-> netloc,
              path |-> IF Contains(pathparams, <<";">>) THEN splitparams(pathparams)
                       ELSE pathparams,
              query |-> query]

-----------------------------------------------------------------------------
(* feature_extract.py *)

\* a Python float n/d is kept as the exact fraction <<n, d>>, an int as an Int
Float(n, d) == <<n, d>>

SHORTENERS ==
    { <<"b","i","t",".","l","y">>,
      <<"t","i","n","y","u","r","l",".","c","o","m">>,
      <<"t",".","c","o">>,
      <<"g","o","o",".","g","l">>,
      <<"o","w",".","l","y">>,
      <<"b","u","f","f",".","l","y">>,
      <<"i","s",".","g","d">>,
      <<"t","i","n","y",".","c","c">>,
      <<"l","c",".","c","h","a","t">>,
      <<"r","e","b","r","a","n","d",".","l","y">>,
      <<"s","h","o","r","t","u","r","l",".","a","t">>,
      <<"s","u",".","p","r">>,
      <<"t","r","i","b",".","a","l">> }

suspicious_words ==
    << <<"l","o","g","i","n">>,
       <<"s","i","g","n","i","n">>,
       <<"s","e","c","u","r","e">>,
       <<"v","e","r","i","f","y">>,
       <<"u","p","d","a","t","e">>,
       <<"a","c","c","o","u","n","t">>,
       <<"c","o","n","f","i","r","m">>,
       <<"b","a","n","k">>,
       <<"p","a","y","p","a","l">>,
       <<"e","b","a","y">> >>

path_extensions ==
    { <<".","p","h","p">>, <<".","a","s","p">>, <<".","a","s","p","x">>,
      <<".","j","s","p">>, <<".","h","t","m","l">>, <<".","c","f","m">>,
      <<".","c","g","i">> }

safe_len(s) == Len(s)

has_port(netloc) ==
    IF Contains(netloc, <<":">>) /\ str_isdigit(split_last(netloc, ":"))
    THEN int(split_last(netloc, ":"))
    ELSE 0

\* url if url.startswith(("http://","https://")) else "http://"+url
ForParsing(u) ==
    IF startswith(u, <<"h","t","t","p",":","/","/">>)
       \/ startswith(u, <<"h","t","t","p","s",":","/","/">>)
    THEN u
    ELSE <<"h","t","t","p",":","/","/">> \o u

\* the counts taken over the string handed to the parser instead
whole_of_parsed(u) == ForParsing(u)

\* whole = url
whole_of(u) == u

\* re.search(r'\.[a-z]{2,4}($|/)', s)
tld_in_path_re(s) ==
    \E i \in DOMAIN s : \E n \in 2..4 :
        /\ s[i] = "."
        /\ i + n <= Len(s)
        /\ \A k \in 1..n : islower_az(s[i + k])
        /\ (i + n = Len(s) \/ s[i + n + 1] = "/")

\* re.search(r'\.[a-z]{2,4}', s)
tld_in_subdomain_re(s) ==
    \E i \in DOMAIN s :
        /\ s[i] = "."
        /\ i + 2 <= Len(s)
        /\ islower_az(s[i + 1])
        /\ islower_az(s[i + 2])

\* re.search(r'\.(php|asp|aspx|jsp|html|cfm|cgi)$', s)
path_extension_re(s) == \E e \in path_extensions : endswith(s, e)

\* digits / length if length > 0 else 0.0
ratio(digits, length) == IF length > 0 THEN Float(digits, length) ELSE Float(0, 1)

ratio_digits_url(whole) == ratio(CountIn(whole, Range(Digits)), safe_len(whole))

\* the digits of the whole url over the length of the host
ratio_digits_host_whole(whole, host) == ratio(CountIn(whole, Range(Digits)), safe_len(host))

ratio_digits_host(whole, host) == ratio(CountIn(host, Range(Digits)), safe_len(host))

\* sum(1 for w in suspicious_words if w in whole.lower())
RECURSIVE phish_hints_sum(_, _)
phish_hints_sum(text, i) ==
    IF i > Len(suspicious_words) THEN 0
    ELSE (IF Contains(text, suspicious_words[i]) THEN 1 ELSE 0) + phish_hints_sum(text, i + 1)

\* sum(whole.lower().count(w) for w in suspicious_words)
RECURSIVE phish_hints_count(_, _)
phish_hints_count(text, i) ==
    IF i > Len(suspicious_words) THEN 0
    ELSE count(text, suspicious_words[i]) + phish_hints_count(text, i + 1)

\* every occurrence counted
phish_hints_occurrences(whole) == phish_hints_count(lower(whole), 1)

phish_hints(whole) == phish_hints_sum(lower(whole), 1)

random_domain(host) ==
    LET vowels == CountIn(host, {"a", "e", "i", "o", "u"})
        digits_host == CountIn(host, Range(Digits))
    IN  IF safe_len(host) > 15
           /\ (5 * vowels < safe_len(host) \/ 10 * digits_host > 3 * safe_len(host))
        THEN 1 ELSE 0

shortening_service(host) == IF split_first(host, ":") \in SHORTENERS THEN 1 ELSE 0

FeatureKeys ==
    {"length_url", "length_hostname", "nb_dots", "nb_hyphens", "nb_at", "nb_qm",
     "nb_and", "nb_or", "nb_eq", "nb_underscore", "nb_tilde", "nb_percent",
     "nb_slash", "nb_star", "nb_colon", "nb_com", "nb_www", "nb_dslash",
     "http_in_path", "https_token", "ratio_digits_url", "ratio_digits_host",
     "punycode", "port", "tld_in_path", "tld_in_subdomain", "nb_subdomains",
     "prefix_suffix", "random_domain", "shortening_service", "path_extension",
     "phish_hints", "abnormal_subdomain", "domain_in_brand", "brand_in_subdomain",
     "brand_in_path"}

\* the feature dict built from the url, its lower-cased text, the lower-cased
\* netloc and the lower-cased path
feature_dict(whole, lwhole, host, lpath) ==
    LET nb_subdomains == count(host, <<".">>)
    IN  [length_url |-> safe_len(whole),
         length_hostname |-> safe_len(host),
         nb_dots |-> count(whole, <<".">>),
         nb_hyphens |-> count(whole, <<"-">>),
         nb_at |-> count(whole, <<"@">>),
         nb_qm |-> count(whole, <<"?">>),
         nb_and |-> count(whole, <<"&">>),
         nb_or |-> count(whole, <<"|">>),
         nb_eq |-> count(whole, <<"=">>),
         nb_underscore |-> count(whole, <<"_">>),
         nb_tilde |-> count(whole, <<"~">>),
         nb_percent |-> count(whole, <<"%">>),
         nb_slash |-> count(whole, <<"/">>),
         nb_star |-> count(whole, <<"*">>),
         nb_colon |-> count(whole, <<":">>),
         nb_com |-> count(lwhole, <<".","c","o","m">>),
         nb_www |-> count(lwhole, <<"w","w","w">>),
         nb_dslash |-> count(whole, <<"/","/">>) - 1,
         http_in_path |-> IF Contains(lpath, <<"h","t","t","p">>) THEN 1 ELSE 0,
         https_token |-> IF Contains(host, <<"h","t","t","p","s">>)
                            \/ Contains(lwhole, <<"h","t","t","p","s">>)
                         THEN 1 ELSE 0,
         ratio_digits_url |-> ratio_digits_url(whole),
         ratio_digits_host |-> ratio_digits_host(whole, host),
         punycode |-> IF startswith(host, <<"x","n","-","-">>)
                         \/ Contains(host, <<"x","n","-","-">>)
                      THEN 1 ELSE 0,
         port |-> has_port(host),
         tld_in_path |-> IF tld_in_path_re(lpath) THEN 1 ELSE 0,
         tld_in_subdomain |-> IF tld_in_subdomain_re(split_first(host, ":")) THEN 1 ELSE 0,
         nb_subdomains |-> nb_subdomains,
         prefix_suffix |-> IF Contains(host, <<"-">>) THEN 1 ELSE 0,
         random_domain |-> random_domain(host),
         shortening_service |-> shortening_service(host),
         path_extension |-> IF path_extension_re(lpath) THEN 1 ELSE 0,
         phish_hints |-> phish_hints(whole),
         abnormal_subdomain |-> IF nb_subdomains > 3 THEN 1 ELSE 0,
         domain_in_brand |-> 0,
         brand_in_subdomain |-> 0,
         brand_in_path |-> 0]

\* host = parsed.netloc.lower(), path = parsed.path, whole = url
features_of(u, parsed) ==
    Only({feature_dict(whole, lower(whole), host, lpath) :
             whole \in {whole_of(u)},
             host \in {lower(parsed.netloc)},
             lpath \in {lower(parsed.path)}})

\* the dict returned, or the exception that leaves the function
compute_url_superset_features(u) ==
    Only({IF IsRaise(parsed) THEN parsed ELSE features_of(u, parsed) :
             parsed \in {urlparse(ForParsing(u))}})

\* the DataFrame: one row, the columns in the order of model_features
assemble(sup, model_features, medians) ==
    [columns |-> model_features,
     row |-> [i \in DOMAIN model_features |->
                 IF model_features[i] \in DOMAIN sup
                 THEN sup[model_features[i]]
                 ELSE IF model_features[i] \in DOMAIN medians
                      THEN medians[model_features[i]]
                      ELSE Float(0, 1)]]

\* a JSON object read by json.load, as opposed to no file, bad JSON, or JSON
\* that is not an object
IsJsonObject(file) == "file" \notin DOMAIN file

\* meta.get(key, default)
dict_get(d, key, default) == IF key \in DOMAIN d THEN d[key] ELSE default

EmptyDict == [k \in {} |-> 0]

\* the DataFrame returned, or the exception that leaves the function
extract_features_for_model(u, file) ==
    IF ~IsJsonObject(file)
    THEN Raise("FileNotFoundError", "Meta file not found or bad format")
    ELSE LET model_features == dict_get(file, "features", <<>>)
             medians == dict_get(file, "medians", EmptyDict)
         IN  Only({IF IsRaise(sup) THEN sup ELSE assemble(sup, model_features, medians) :
                      sup \in {compute_url_superset_features(u)}})

IsDataFrame(x) == DOMAIN x = {"columns", "row"}

-----------------------------------------------------------------------------
(* The trained classifier robust_rf.pkl: an artifact outside the sources. *)
(* A classifier labels a record 0 (legitimate) or 1 (phishing), or fails. *)

Classifiers ==
    { [rule |-> "phish", has_proba |-> FALSE],
      [rule |-> "hints", has_proba |-> TRUE],
      [rule |-> "broken", has_proba |-> TRUE] }

ColumnValue(frame, name, default) ==
    IF \E i \in DOMAIN frame.columns : frame.columns[i] = name
    THEN frame.row[CHOOSE i \in DOMAIN frame.columns : frame.columns[i] = name]
    ELSE default

\* model.predict(X)[0]: the label, or the exception raised
model_predict(clf, frame) ==
    CASE clf.rule = "phish" -> [label |-> 1]
      [] clf.rule = "hints" ->
           [label |-> IF ColumnValue(frame, "phish_hints", 0) > 0 THEN 1 ELSE 0]
      [] OTHER -> Raise("ValueError", "X does not match the fitted features")

\* model.predict_proba(X)[0].tolist()
model_predict_proba(clf, frame) ==
    IF model_predict(clf, frame).label = 1
    THEN <<Float(0, 1), Float(1, 1)>>
    ELSE <<Float(1, 1), Float(0, 1)>>

-----------------------------------------------------------------------------
(* app.py *)

Absent == [type |-> "absent"]
JsonNull == [type |-> "null"]
JsonNumber == [type |-> "number"]
Str(s) == [type |-> "str", value |-> s]

\* data.get("url", "") / request.form.get("url", "")
field_get(field) == IF field = Absent THEN Str(<<>>) ELSE field

\* index(): the form with an empty result area
index_response == [status |-> 200, kind |-> "html", body |-> [result |-> None]]

jsonify(body, status) == [status |-> status, kind |-> "json", body |-> body]

render_result(resp) == [status |-> 200, kind |-> "html", body |-> [result |-> resp]]

\* the two labels swapped
meaning_swapped(pred) == IF pred = 1 THEN "legitimate" ELSE "phishing"

\* "phishing" if pred==1 else "legitimate"
meaning_of(pred) == IF pred = 1 THEN "phishing" ELSE "legitimate"

\* the url taken from the request and stripped, or the exception raised
\* before it is known (lines 36-40)
request_url(req) ==
    IF req.is_json
    THEN CASE req.body = "malformed" -> Raise("BadRequest", "400 Bad Request")
           [] req.body = "array" ->
                Raise("AttributeError", "'list' object has no attribute 'get'")
           [] OTHER ->
                LET v == field_get(req.url) IN
                IF v.type = "str" THEN [value |-> strip(v.value)]
                ELSE Raise("AttributeError", "object has no attribute 'strip'")
    ELSE [value |-> strip(field_get(req.url).value)]

\* not url
is_empty_url(u) == u = <<>>

\* lines 46-55: the response for the record X, or the exception raised
predict_frame(req, u, clf, frame) ==
    IF IsRaise(frame) THEN frame
    ELSE LET predicted == model_predict(clf, frame) IN
         IF IsRaise(predicted) THEN predicted
         ELSE LET pred == predicted.label
                  resp == IF clf.has_proba
                          THEN [url |-> u, prediction |-> pred, meaning |-> meaning_of(pred),
                                probabilities |-> model_predict_proba(clf, frame)]
                          ELSE [url |-> u, prediction |-> pred, meaning |-> meaning_of(pred)]
              IN  IF ~req.is_json THEN render_result(resp) ELSE jsonify(resp, 200)

\* the body of the try block: the url and the record X it got to, and the
\* response returned or the exception raised
predict_try(req, clf, file) ==
    LET u == request_url(req) IN
    IF IsRaise(u) THEN [url |-> None, X |-> None, out |-> u]
    ELSE IF is_empty_url(u.value)
    THEN [url |-> u, X |-> None, out |-> jsonify([error |-> "no url provided"], 400)]
    ELSE Only({[url |-> u, X |-> frame, out |-> predict_frame(req, u.value, clf, frame)] :
                  frame \in {extract_features_for_model(u.value, file)}})

\* except Exception as e
on_exception(e) ==
    jsonify([error |-> "exception", detail |-> e.msg, trace |-> <<"Traceback", e.type>>], 500)

\* the handler with `except ValueError` in place of `except Exception`: any
\* other exception reaches Flask, which answers with its own error page
predict_except_ValueError(out) ==
    IF ~IsRaise(out) THEN out
    ELSE IF out.type = "ValueError" THEN on_exception(out)
    ELSE [status |-> 500, kind |-> "html", body |-> [result |-> None]]

\* predict(): the response sent for the outcome of the try block
predict(out) == IF IsRaise(out) THEN on_exception(out) ELSE out

-----------------------------------------------------------------------------
(* The inputs *)

\* robust_meta.json documents: feature lists that mix extractor features with
\* features the extractor does not compute, with and without medians
MetaDocs ==
    { [features |-> <<"length_url", "page_rank", "phish_hints">>,
       medians |-> [length_url |-> Float(47, 1), page_rank |-> Float(3, 1)]],
      [features |-> <<"web_traffic", "nb_dslash", "ratio_digits_url", "page_rank">>],
      [medians |-> [page_rank |-> Float(3, 1)]] }

MetaFiles == MetaDocs \cup {Missing, Malformed}

ModelFiles == Classifiers \cup {Missing}

\* the url fields of the requests
SvcUrls ==
    { <<>>,
      <<" ">>,
      <<" ","b","i","t",".","l","y"," ">>,
      <<"[">>,
      <<"a",".","c","o","/","l","o","g","i","n">>,
      <<"u","@","t",".","c","o","/","x">> }

UrlFields == {Absent} \cup {Str(s) : s \in SvcUrls}

Requests ==
    {[route |-> "predict", is_json |-> FALSE, body |-> "form", url |-> f] : f \in UrlFields}
    \cup {[route |-> "predict", is_json |-> TRUE, body |-> "object", url |-> f] :
             f \in UrlFields \cup {JsonNull, JsonNumber}}
    \cup {[route |-> "predict", is_json |-> TRUE, body |-> b, url |-> Absent] :
             b \in {"malformed", "array"}}

-----------------------------------------------------------------------------
(* The service: start-up, the two routes, and the files changing on disk *)

Init ==
    /\ phase = "boot"
    /\ modelFile \in ModelFiles
    /\ metaFile \in MetaFiles
    /\ model = None
    /\ meta = None
    /\ MODEL_FEATURES = None
    /\ request = None
    /\ response = None
    /\ exc = NoExc
    /\ url = None
    /\ features = None
    /\ X = None

\* app.py lines 13-16, run once when the process starts: any failure ends it
Startup ==
    /\ phase = "boot"
    /\ IF modelFile # Missing /\ IsJsonObject(metaFile) /\ "features" \in DOMAIN metaFile
       THEN /\ phase' = "serving"
            /\ model' = modelFile
            /\ meta' = metaFile
            /\ MODEL_FEATURES' = [list |-> metaFile.features]
       ELSE /\ phase' = "crashed"
            /\ UNCHANGED <<model, meta, MODEL_FEATURES>>
    /\ UNCHANGED <<modelFile, metaFile, request, response, exc, url, features, X>>

\* GET /
Index ==
    /\ phase = "serving"
    /\ request' = [route |-> "index"]
    /\ response' = index_response
    /\ exc' = NoExc
    /\ url' = None
    /\ X' = None
    /\ UNCHANGED <<phase, modelFile, metaFile, model, meta, MODEL_FEATURES, features>>

\* POST /predict
Predict(req) ==
    /\ phase = "serving"
    /\ \E r \in {predict_try(req, model, metaFile)} :
           /\ request' = req
           /\ response' = predict(r.out)
           /\ exc' = IF IsRaise(r.out) THEN r.out ELSE NoExc
           /\ url' = r.url
           /\ X' = r.X
    /\ UNCHANGED <<phase, modelFile, metaFile, model, meta, MODEL_FEATURES, features>>

\* the metadata file is rewritten or replaced
WriteMeta(doc) ==
    /\ phase \in {"boot", "serving"}
    /\ doc # metaFile
    /\ metaFile' = doc
    /\ UNCHANGED <<phase, modelFile, model, meta, MODEL_FEATURES,
                   request, response, exc, url, features, X>>

\* the metadata file is deleted
DeleteMeta ==
    /\ phase \in {"boot", "serving"}
    /\ metaFile # Missing
    /\ metaFile' = Missing
    /\ UNCHANGED <<phase, modelFile, model, meta, MODEL_FEATURES,
                   request, response, exc, url, features, X>>

Next ==
    \/ Startup
    \/ Index
    \/ \E req \in Requests : Predict(req)
    \/ \E doc \in MetaFiles \ {Missing} : WriteMeta(doc)
    \/ DeleteMeta

Spec == Init /\ [][Next]_vars

-----------------------------------------------------------------------------
(* The extractor called as a library: the inputs are every short string    *)
(* over FxAlphabet and a corpus of URLs put together from parts            *)

MaxLen == 3

FxAlphabet == {"a", "1", ".", ":", "/", "["}

ShortStrings == UNION {[1..n -> FxAlphabet] : n \in 0..MaxLen}

Schemes ==
    { <<>>,
      <<"h","t","t","p",":","/","/">>,
      <<"h","t","t","p","s",":","/","/">> }

UserInfos ==
    { <<>>,
      <<"u","@">>,
      <<"u",":","p","@">> }

Hosts ==
    { <<"b","i","t",".","l","y">>,
      <<"T",".","c","o">>,
      <<"a","1",".","c","o","m">>,
      <<"x","n","-","-","a",".","b","1">>,
      <<"[",":",":","1","]">>,
      <<"x","9","k","2","z","7","q","4","w","1","v","8","b","3","n","5",".","c","o","m">> }

Ports ==
    { <<>>,
      <<":","8","0">> }

Tails ==
    { <<>>,
      <<"/","l","o","g","i","n","/","s","e","c","u","r","e",".","p","h","p">>,
      <<"/","/","a",".","c","o","m","/","x">>,
      <<"/","a",";","b",".","h","t","m","l","?","q","=","1","#","f">> }

Specials ==
    { <<"l","o","g","i","n","l","o","g","i","n">>,
      <<"L","o","g","i","n","L","O","G","I","N",".","c","o","m">>,
      <<"a","\t","b">>,
      <<" ","b","i","t",".","l","y">>,
      <<"H","T","T","P",":","/","/","b","i","t",".","l","y">>,
      <<"b","i","t",".","l","y",":">>,
      <<"t",".","c","o","/","?","b","a","n","k","=","1","&","x","=","y">>,
      <<"u","@","i","s",".","g","d",":","/">>,
      <<"e","b","a","y",".","c","o","m","/","s","i","g","n","i","n","/","v","e","r","i","f","y","/","a","c","c","o","u","n","t","/","u","p","d","a","t","e","/","c","o","n","f","i","r","m">>,
      <<"w","w","w",".","p","a","y","p","a","l",".","c","o","m","-","w","w","w",".","x","y","z","/","~","a","_","b","*","c","|","d","%","2","0">>,
      <<"[","v","1",".","a","]">>,
      <<"[","1",".","2",".","3",".","4","]">>,
      <<"[","1",":","2",":","3",":","4",":","5",":","6",":","7",":","8","]",":","8","0">>,
      <<"[","1",":",":","1",".","2",".","3",".","4","]","/","x">>,
      <<"[",":",":","1","%","a","]">>,
      <<"[",":","1","]">>,
      <<"a","]">>,
      <<"[","a","]",":","1">>,
      <<"1",".","2",".","3",".","4",".","5",":","0","0","0","8","0">>,
      <<"a","e","i","o","u","a","e","i","o","u","a","e","i","o","u",".","c","o">>,
      <<"a",".","b",".","c",".","d",".","e","/","x",".","a","s","p","/">>,
      <<"a","/","b",".","c","/","d",";","e","/","f",".","c","g","i">>,
      <<"a","/","h","t","t","p","S">>,
      <<"h","t","t","p","s",".","a","/">> }

Corpus ==
    {s \o u \o h \o p \o t : s \in Schemes, u \in UserInfos, h \in Hosts, p \in Ports, t \in Tails}

Urls == ShortStrings \cup Corpus \cup Specials

InitFx ==
    /\ phase = "library"
    /\ modelFile = Missing
    /\ metaFile \in MetaFiles
    /\ model = None
    /\ meta = None
    /\ MODEL_FEATURES = None
    /\ request = None
    /\ response = None
    /\ exc = NoExc
    /\ url \in {[value |-> u] : u \in Urls}
    /\ features = None
    /\ X = None

\* compute_url_superset_features(url)
CallCompute ==
    /\ phase = "library"
    /\ features' = compute_url_superset_features(url.value)
    /\ UNCHANGED <<phase, modelFile, metaFile, model, meta, MODEL_FEATURES,
                   request, response, exc, url, X>>

\* extract_features_for_model(url, meta_path)
CallExtract ==
    /\ phase = "library"
    /\ X' = extract_features_for_model(url.value, metaFile)
    /\ UNCHANGED <<phase, modelFile, metaFile, model, meta, MODEL_FEATURES,
                   request, response, exc, url, features>>

NextFx == CallCompute \/ CallExtract

SpecFx == InitFx /\ [][NextFx]_vars

-----------------------------------------------------------------------------
(* Properties *)

IsDict(f) == f # None /\ ~IsRaise(f)

IsNumber(v) == v \in Int \/ (Len(v) = 2 /\ v[1] \in Int /\ v[2] \in Int /\ v[2] > 0)

\* the number of positions of text where the one character c stands
Occurrences(text, c) == Cardinality({i \in DOMAIN text : text[i] = c})

SchemeLess(u) ==
    /\ ~startswith(u, <<"h","t","t","p",":","/","/">>)
    /\ ~startswith(u, <<"h","t","t","p","s",":","/","/">>)

\* C1: for every URL and every metadata document with a features list and a
\* medians mapping, extract_features_for_model returns one record whose columns
\* are the declared features in the declared order, each carrying the
\* extractor's value, or else the median, or else 0.0; it never fails.
C1_RecordAsDeclared ==
    (X # None /\ IsJsonObject(metaFile) /\ {"features", "medians"} \subseteq DOMAIN metaFile)
    => /\ IsDataFrame(X)
       /\ X.columns = metaFile.features
       /\ DOMAIN X.row = DOMAIN metaFile.features
       /\ \A i \in DOMAIN X.row :
              LET feat == metaFile.features[i]
                  sup == compute_url_superset_features(url.value)
              IN  IF feat \in DOMAIN sup THEN X.row[i] = sup[feat]
                  ELSE IF feat \in DOMAIN metaFile.medians
                       THEN X.row[i] = metaFile.medians[feat]
                       ELSE X.row[i] = <<0, 1>>

\* C4: for any string, compute_url_superset_features returns a mapping with
\* every fixed feature key and a numeric value for each; it never raises.
C4_AlwaysCompleteMapping ==
    features # None
    => /\ ~IsRaise(features)
       /\ DOMAIN features = FeatureKeys
       /\ \A k \in FeatureKeys : IsNumber(features[k])

\* C6 as claimed: phish_hints is the number of occurrences of the suspicious
\* keywords in the lower-cased URL text, each occurrence adding one.
C6_CountsOccurrences ==
    IsDict(features) => features.phish_hints = phish_hints_count(lower(url.value), 1)

\* C6 as amended: phish_hints is the number of distinct suspicious keywords
\* that occur at least once in the lower-cased URL text.
C6_CountsDistinctKeywords ==
    IsDict(features)
    => features.phish_hints =
           Cardinality({i \in DOMAIN suspicious_words :
                           Contains(lower(url.value), suspicious_words[i])})

\* a keyword stands twice in the URL and is counted once
C6_Witness ==
    /\ IsDict(features)
    /\ features.phish_hints = 1
    /\ count(lower(url.value), <<"l","o","g","i","n">>) = 2

\* the host of a URL: the authority without user information and port
\* (RFC 3986 section 3.2), lower-cased
UrlHost(u) ==
    LET parsed == urlparse(ForParsing(u))
        at == rfind(parsed.netloc, <<"@">>)
        hostport == SubSeq(parsed.netloc, at + 1, Len(parsed.netloc))
    IN  IF startswith(hostport, <<"[">>) THEN lower(split_first(Tail(hostport), "]"))
        ELSE lower(split_first(hostport, ":"))

\* C7: shortening_service is 1 if and only if the URL's host, without port and
\* user information, is an entry of the shortener set.
C7_ShortenerIffHost ==
    IsDict(features)
    => (features.shortening_service = 1 <=> UrlHost(url.value) \in SHORTENERS)

InUnitInterval(v) == v[2] > 0 /\ 0 <= v[1] /\ v[1] <= v[2]

\* C9: ratio_digits_url and ratio_digits_host are in [0,1], and each is 0.0
\* when the length it is taken over is 0.
C9_RatiosInUnitInterval ==
    IsDict(features)
    => /\ InUnitInterval(features.ratio_digits_url)
       /\ InUnitInterval(features.ratio_digits_host)
       /\ (features.length_url = 0 => features.ratio_digits_url = <<0, 1>>)
       /\ (features.length_hostname = 0 => features.ratio_digits_host = <<0, 1>>)

\* an empty host in a URL that has digits: one ratio is 0.0 by the guard, the
\* other is a proper fraction
C9_Witness ==
    /\ IsDict(features)
    /\ features.length_hostname = 0
    /\ features.ratio_digits_host = <<0, 1>>
    /\ features.ratio_digits_url[1] > 0

\* C10: for an input without http:// or https:// prefix the character counts
\* are those of the input itself, not of the string with the scheme prepended;
\* without "//" in the input nb_dslash is -1.
C10_CountsOverOriginal ==
    (IsDict(features) /\ SchemeLess(url.value))
    => LET u == url.value IN
       /\ features.length_url = Len(u)
       /\ features.nb_dots = Occurrences(u, ".")
       /\ features.nb_hyphens = Occurrences(u, "-")
       /\ features.nb_at = Occurrences(u, "@")
       /\ features.nb_qm = Occurrences(u, "?")
       /\ features.nb_and = Occurrences(u, "&")
       /\ features.nb_or = Occurrences(u, "|")
       /\ features.nb_eq = Occurrences(u, "=")
       /\ features.nb_underscore = Occurrences(u, "_")
       /\ features.nb_tilde = Occurrences(u, "~")
       /\ features.nb_percent = Occurrences(u, "%")
       /\ features.nb_slash = Occurrences(u, "/")
       /\ features.nb_star = Occurrences(u, "*")
       /\ features.nb_colon = Occurrences(u, ":")
       /\ features.nb_dslash = count(u, <<"/","/">>) - 1
       /\ (~Contains(u, <<"/","/">>) => features.nb_dslash = -1)

\* a scheme-less input with slashes and colons of its own and no "//"
C10_Witness ==
    /\ IsDict(features)
    /\ SchemeLess(url.value)
    /\ ~Contains(url.value, <<"/","/">>)
    /\ features.nb_slash = 1
    /\ features.nb_colon = 1
    /\ features.nb_dslash = -1

-----------------------------------------------------------------------------
(* Properties of the service *)

IsPredictRequest(req) == req # None /\ req.route = "predict"

\* the url field is absent from the request, or is empty after trimming
UrlAbsentOrBlank(req) ==
    \/ req.url = Absent
    \/ (req.url.type = "str" /\ rstrip(lstrip(req.url.value)) = <<>>)

NoUrlResponse(resp) ==
    /\ resp.status = 400
    /\ resp.kind = "json"
    /\ resp.body = [error |-> "no url provided"]

\* C2 as claimed: every POST /predict request, JSON or form-encoded, whose url
\* field is absent or empty after trimming is answered 400 with the body
\* {"error": "no url provided"}.
C2_NoUrlIs400 ==
    (IsPredictRequest(request) /\ UrlAbsentOrBlank(request)) => NoUrlResponse(response)

\* C2 as amended: a form-encoded request, or a request whose JSON body is an
\* object, whose url field is absent or is a string that is empty after
\* trimming is answered 400 with the body {"error": "no url provided"}; a JSON
\* body that is malformed or is not an object is answered 500.
C2_NoUrlIs400_FormOrObject ==
    IsPredictRequest(request)
    => /\ (request.body \in {"form", "object"} /\ UrlAbsentOrBlank(request))
              => NoUrlResponse(response)
       /\ request.body \in {"malformed", "array"} => response.status = 500

\* a JSON object whose url is only white space is answered 400
C2_Witness ==
    /\ IsPredictRequest(request)
    /\ request.body = "object"
    /\ request.url = Str(<<" ">>)
    /\ NoUrlResponse(response)

ExceptionResponse(resp, e) ==
    /\ resp.status = 500
    /\ resp.kind = "json"
    /\ DOMAIN resp.body = {"error", "detail", "trace"}
    /\ resp.body.error = "exception"
    /\ resp.body.detail = e.msg
    /\ resp.body.trace # <<>>

\* C3: an exception raised while a POST /predict request is handled becomes a
\* 500 response with the error marker, the exception's message and a trace,
\* and the request that raised it changes nothing a later request is answered
\* from: the process keeps serving with the same classifier and the same files.
C3_ExceptionsAre500AndHarmless ==
    /\ [](exc # NoExc => ExceptionResponse(response, exc))
    /\ [][((\E req \in Requests : Predict(req)) /\ exc' # NoExc)
            => /\ phase' = "serving"
               /\ UNCHANGED <<modelFile, metaFile, model, meta, MODEL_FEATURES>>]_vars

\* a request that raised AttributeError was answered 500 and the service is up
C3_Witness ==
    /\ phase = "serving"
    /\ exc.type = "AttributeError"
    /\ ExceptionResponse(response, exc)

\* the structured result of a successful prediction, from the JSON body or
\* from the page it is rendered into
ResultOf(resp) == IF resp.kind = "json" THEN resp.body ELSE resp.body.result

Succeeded ==
    /\ IsPredictRequest(request)
    /\ url # None
    /\ url.value # <<>>
    /\ exc = NoExc

\* C5: a POST /predict request with a non-empty URL on which prediction
\* succeeds is answered 200 with prediction in {0,1} and meaning "phishing"
\* exactly when prediction is 1, "legitimate" otherwise.
C5_MeaningMatchesPrediction ==
    Succeeded
    => /\ response.status = 200
       /\ ResultOf(response).prediction \in {0, 1}
       /\ ResultOf(response).meaning = "phishing" <=> ResultOf(response).prediction = 1
       /\ ResultOf(response).meaning = "legitimate" <=> ResultOf(response).prediction = 0
       /\ ResultOf(response).url = url.value

\* a form request whose URL the classifier labels 1 is answered "phishing"
C5_Witness ==
    /\ Succeeded
    /\ ~request.is_json
    /\ ResultOf(response).prediction = 1
    /\ ResultOf(response).meaning = "phishing"

\* C8: the feature list and the medians a request's record is assembled from
\* are those read at start-up, whatever happened to the metadata file since.
C8_RecordFromStartupMeta ==
    (phase = "serving" /\ IsPredictRequest(request) /\ url # None /\ url.value # <<>>)
    => X = extract_features_for_model(url.value, meta)

====
